---- MODULE Spec2Model ----
(***************************************************************************)
(* Model of build.rs of hdfs-sys: the build script that links the JVM,     *)
(* looks for a prebuilt libhdfs and otherwise compiles the bundled libhdfs  *)
(* sources.  One run of main is one behaviour.  The state holds the build   *)
(* context (os, cargo features, environment), the position of main (pc),    *)
(* the locals of main and of the functions it calls, the cc::Build being    *)
(* assembled, and `trace`: the cargo directives printed and the collaborator*)
(* calls made so far, in order.                                             *)
(***************************************************************************)
EXTENDS Integers, Sequences, FiniteSets, TLC

VARIABLES os, vendored, features, env, pc, trace, found, lib_dir, jvm_path,
          java_home, version, builder

vars == <<os, vendored, features, env, pc, trace, found, lib_dir, jvm_path,
          java_home, version, builder>>

(* ------------------------------ bounds --------------------------------- *)

\* Longest environment-variable value, in path components.
MaxVal == 1

\* Most version features enabled together in a run of the whole script
\* (SpecBuild enables every subset).
MaxFlags == 1

(* --------------------------- build context ----------------------------- *)

\* cfg!(target_os = ...) / cfg!(windows) as the script tests them.
TargetOs == {"linux", "macos", "windows"}

\* The hdfs versions, oldest first; "hdfs_2_2" is the default and has no
\* cfg!(feature) test.
Versions ==
    <<"hdfs_2_2", "hdfs_2_3", "hdfs_2_4", "hdfs_2_5", "hdfs_2_6", "hdfs_2_7",
      "hdfs_2_8", "hdfs_2_9", "hdfs_2_10", "hdfs_3_0", "hdfs_3_1", "hdfs_3_2",
      "hdfs_3_3">>

\* The version features build_libhdfs tests with cfg!(feature = ...).
Features == {Versions[i] : i \in 2..Len(Versions)}

\* The environment variables the script reads.
EnvNames == {"DOCS_RS", "HDFS_LIB_DIR", "HADOOP_HOME", "HDFS_STATIC"}

\* A value of the process environment: unset, set to bytes that are not
\* valid Unicode, or set to a (possibly empty) Unicode string, here a path
\* of 0..MaxVal components.
Unset == [set |-> FALSE, unicode |-> FALSE, val |-> <<>>]
NotUnicode == [set |-> TRUE, unicode |-> FALSE, val |-> <<>>]
Text(n) == [set |-> TRUE, unicode |-> TRUE, val |-> [i \in 1..n |-> "opt"]]
EnvValues == {Unset, NotUnicode} \cup {Text(n) : n \in 0..MaxVal}

\* std::env::var(name): Ok(value) only when the variable is set AND valid
\* Unicode; Err(NotPresent) or Err(NotUnicode) otherwise.  The result is
\* the set of Ok values (empty for Err).
env_var(e, name) == IF e[name].set /\ e[name].unicode THEN {e[name].val} ELSE {}

\* std::env::var_os(name): Some(_) whenever the variable is set.
env_var_os(e, name) == IF e[name].set THEN {e[name]} ELSE {}

(* ------------------------ external collaborators ----------------------- *)

\* What java_locator can answer: Err (the empty set) or Ok(path).
JvmDirs == {<<"java", "lib", "server">>}
JvmLibDirs == {<<"java", "lib">>}
JavaHomes == {<<"java">>}
Err == {}
Results(paths) == {Err} \cup {{p} : p \in paths}

(* ------------------------------- trace --------------------------------- *)

\* A println!("cargo:<key>=[<mode>=]<val>") of function `by`.
Emit(by, key, mode, val) ==
    [ev |-> "emit", by |-> by, key |-> key, mode |-> mode, val |-> val, ok |-> TRUE]

\* A call of an external collaborator (java_locator, cc) by function `by`.
Call(by, fn, ok) ==
    [ev |-> "call", by |-> by, key |-> fn, mode |-> "", val |-> <<>>, ok |-> ok]

(* ------------------------------ find_jvm ------------------------------- *)

\* Mutant of find_jvm_directives: the search path of the JVM is not printed.
find_jvm_directives_no_search(path) ==
    << Emit("find_jvm", "rustc-link-lib", "", <<"jvm">>),
       Emit("find_jvm", "rustc-link-arg", "-Wl,-rpath", path),
       Emit("find_jvm", "metadata", "JVM_PATH", path) >>

\* The four directives find_jvm prints for the discovered directory, in the
\* order of its println! lines.
find_jvm_directives(path) ==
    << Emit("find_jvm", "rustc-link-lib", "", <<"jvm">>),
       Emit("find_jvm", "rustc-link-search", "native", path),
       Emit("find_jvm", "rustc-link-arg", "-Wl,-rpath", path),
       Emit("find_jvm", "metadata", "JVM_PATH", path) >>

\* #[cfg(windows)]: the extra search path when locate_file("jvm.lib") is Ok.
find_jvm_windows(o, lib) ==
    IF o = "windows"
    THEN <<Call("find_jvm", "locate_file", lib # Err)>>
         \o (IF lib # Err
             THEN <<Emit("find_jvm", "rustc-link-search", "native",
                         CHOOSE p \in lib : TRUE)>>
             ELSE <<>>)
    ELSE <<>>

(* ---------------------------- find_libhdfs ----------------------------- *)

\* The three rerun-if-env-changed registrations.
find_libhdfs_rerun ==
    << Emit("find_libhdfs", "rerun-if-env-changed", "", <<"HDFS_LIB_DIR">>),
       Emit("find_libhdfs", "rerun-if-env-changed", "", <<"HDFS_STATIC">>),
       Emit("find_libhdfs", "rerun-if-env-changed", "", <<"HADOOP_HOME">>) >>

\* let lib_dir = ...: HDFS_LIB_DIR, else {HADOOP_HOME}/lib/native, else the
\* early return (the empty set).
find_libhdfs_dir(e) ==
    IF env_var(e, "HDFS_LIB_DIR") # {}
    THEN env_var(e, "HDFS_LIB_DIR")
    ELSE IF env_var(e, "HADOOP_HOME") # {}
         THEN {h \o <<"lib", "native">> : h \in env_var(e, "HADOOP_HOME")}
         ELSE {}

\* Mutant of find_libhdfs_mode: HDFS_STATIC read with env::var, so that a
\* value that is not Unicode counts as unset.
find_libhdfs_mode_var(e) ==
    IF env_var(e, "HDFS_STATIC") # {} THEN "static" ELSE "dylib"

\* let mode = match env::var_os("HDFS_STATIC") ...
find_libhdfs_mode(e) ==
    IF env_var_os(e, "HDFS_STATIC") # {} THEN "static" ELSE "dylib"

\* Mutant of find_libhdfs_directives: the library is named before its
\* search path.
find_libhdfs_directives_lib_first(dir, mode) ==
    << Emit("find_libhdfs", "rustc-link-lib", mode, <<"hdfs">>),
       Emit("find_libhdfs", "rustc-link-search", "native", dir) >>

\* The two directives printed once a directory is chosen.
find_libhdfs_directives(dir, mode) ==
    << Emit("find_libhdfs", "rustc-link-search", "native", dir),
       Emit("find_libhdfs", "rustc-link-lib", mode, <<"hdfs">>) >>

(* ---------------------------- build_libhdfs ---------------------------- *)

\* cc::Build::new(): nothing requested yet.
NewBuild ==
    [warnings |-> {}, static_flag |-> {}, static_crt |-> {},
     flags_if_supported |-> <<>>, flags |-> <<>>, includes |-> <<>>,
     files |-> <<>>]

\* The builder.flag(...) calls of the cfg!(windows) branch and of its else.
platform_flags(o) ==
    IF o = "windows"
    THEN <<"-O2", "/W4", "/wd4100", "/wd4127", "-D_CRT_NONSTDC_NO_DEPRECATE",
           "-D_CRT_SECURE_NO_WARNINGS", "-DWIN32_LEAN_AND_MEAN">>
    ELSE <<"-fvisibility=hidden", "-fcommon">>

\* "Handle java headers".
java_includes(home, o) ==
    << home \o <<"include">> >>
    \o (IF o = "linux" THEN << home \o <<"include", "linux">> >> ELSE <<>>)
    \o (IF o = "macos" THEN << home \o <<"include", "darwin">> >> ELSE <<>>)
    \o (IF o = "windows" THEN << home \o <<"include", "win32">> >> ELSE <<>>)

\* Mutant of VersionChain: the windows override tested after the feature
\* tests instead of between hdfs_2_5 and hdfs_2_6.
VersionChainWindowsLast ==
    << [cfg |-> "feature", is |-> "hdfs_2_3", version |-> "hdfs_2_3"],
       [cfg |-> "feature", is |-> "hdfs_2_4", version |-> "hdfs_2_4"],
       [cfg |-> "feature", is |-> "hdfs_2_5", version |-> "hdfs_2_5"],
       [cfg |-> "feature", is |-> "hdfs_2_6", version |-> "hdfs_2_6"],
       [cfg |-> "feature", is |-> "hdfs_2_7", version |-> "hdfs_2_7"],
       [cfg |-> "feature", is |-> "hdfs_2_8", version |-> "hdfs_2_8"],
       [cfg |-> "feature", is |-> "hdfs_2_9", version |-> "hdfs_2_9"],
       [cfg |-> "feature", is |-> "hdfs_2_10", version |-> "hdfs_2_10"],
       [cfg |-> "feature", is |-> "hdfs_3_0", version |-> "hdfs_3_0"],
       [cfg |-> "feature", is |-> "hdfs_3_1", version |-> "hdfs_3_1"],
       [cfg |-> "feature", is |-> "hdfs_3_2", version |-> "hdfs_3_2"],
       [cfg |-> "feature", is |-> "hdfs_3_3", version |-> "hdfs_3_3"],
       [cfg |-> "target_os", is |-> "windows", version |-> "hdfs_2_6"] >>

\* "Choose the latest hdfs version": the chain of `if cfg!(...) { version =
\* ... }` statements after `let mut version = "hdfs_2_2"`, in source order.
VersionChain ==
    << [cfg |-> "feature", is |-> "hdfs_2_3", version |-> "hdfs_2_3"],
       [cfg |-> "feature", is |-> "hdfs_2_4", version |-> "hdfs_2_4"],
       [cfg |-> "feature", is |-> "hdfs_2_5", version |-> "hdfs_2_5"],
       [cfg |-> "target_os", is |-> "windows", version |-> "hdfs_2_6"],
       [cfg |-> "feature", is |-> "hdfs_2_6", version |-> "hdfs_2_6"],
       [cfg |-> "feature", is |-> "hdfs_2_7", version |-> "hdfs_2_7"],
       [cfg |-> "feature", is |-> "hdfs_2_8", version |-> "hdfs_2_8"],
       [cfg |-> "feature", is |-> "hdfs_2_9", version |-> "hdfs_2_9"],
       [cfg |-> "feature", is |-> "hdfs_2_10", version |-> "hdfs_2_10"],
       [cfg |-> "feature", is |-> "hdfs_3_0", version |-> "hdfs_3_0"],
       [cfg |-> "feature", is |-> "hdfs_3_1", version |-> "hdfs_3_1"],
       [cfg |-> "feature", is |-> "hdfs_3_2", version |-> "hdfs_3_2"],
       [cfg |-> "feature", is |-> "hdfs_3_3", version |-> "hdfs_3_3"] >>

\* cfg!(feature = "...") / cfg!(target_os = "...").
cfg(c, F, o) == IF c.cfg = "feature" THEN c.is \in F ELSE c.is = o

\* The chain run from statement i on, with `version` holding v.
RECURSIVE run_chain(_, _, _, _)
run_chain(i, v, F, o) ==
    IF i > Len(VersionChain)
    THEN v
    ELSE run_chain(i + 1,
                   IF cfg(VersionChain[i], F, o) THEN VersionChain[i].version ELSE v,
                   F, o)

choose_version(F, o) == run_chain(1, "hdfs_2_2", F, o)

\* format!("libhdfs/{version}/...").
InVersion(v, rest) == <<"libhdfs", v>> \o rest

\* "Since 2.6, we need to include mutexes."
mutex_rule(F, o) == "hdfs_2_6" \in F \/ o = "windows"

\* "From 2.6 to 3.3, we need to include htable (removed in 3.3)".
htable_rule(F) == "hdfs_2_6" \in F /\ ~("hdfs_3_3" \in F)

\* Mutant of header_rule: the relocated include only for the 2.x line.
header_rule_2x_only(F) == "hdfs_2_8" \in F /\ ~("hdfs_3_0" \in F)

\* "Since 2.8, hdfs.h has been moved to include/hdfs/hdfs.h".
header_rule(F) == "hdfs_2_8" \in F

\* "Since 3.3, we need to compile jclasses.c".
jclasses_rule(F) == "hdfs_3_3" \in F

\* The builder.include(...) calls from builder.include("libhdfs") on.
source_includes(F, o, v) ==
    << <<"libhdfs">>, InVersion(v, <<>>) >>
    \o (IF mutex_rule(F, o)
        THEN << InVersion(v, <<"os">>),
                IF o = "windows"
                THEN InVersion(v, <<"os", "windows">>)
                ELSE InVersion(v, <<"os", "posix">>) >>
        ELSE <<>>)
    \o (IF htable_rule(F) THEN << InVersion(v, <<"common">>) >> ELSE <<>>)
    \o (IF header_rule(F) THEN << InVersion(v, <<"include">>) >> ELSE <<>>)
    \o (IF jclasses_rule(F) /\ o = "windows"
        THEN << <<"libdirent", "include">> >>
        ELSE <<>>)

\* The builder.file(...) calls.
source_files(F, o, v) ==
    << InVersion(v, <<"exception.c">>), InVersion(v, <<"jni_helper.c">>),
       InVersion(v, <<"hdfs.c">>) >>
    \o (IF mutex_rule(F, o)
        THEN IF o = "windows"
             THEN << InVersion(v, <<"os", "windows", "mutexes.c">>),
                     InVersion(v, <<"os", "windows", "thread.c">>),
                     InVersion(v, <<"os", "windows", "thread_local_storage.c">>) >>
             ELSE << InVersion(v, <<"os", "posix", "mutexes.c">>),
                     InVersion(v, <<"os", "posix", "thread.c">>),
                     InVersion(v, <<"os", "posix", "thread_local_storage.c">>) >>
        ELSE <<>>)
    \o (IF htable_rule(F) THEN << InVersion(v, <<"common", "htable.c">>) >> ELSE <<>>)
    \o (IF jclasses_rule(F) THEN << InVersion(v, <<"jclasses.c">>) >> ELSE <<>>)

\* #[cfg(not(feature = "vendored"))] println!("cargo:warning=...").
fallback_warning(vend) ==
    IF vend
    THEN <<>>
    ELSE <<Emit("build_libhdfs", "warning", "", <<"Building libhdfs from source as a fallback">>)>>

(* ------------------------------- states -------------------------------- *)

Start ==
    /\ pc = "main"
    /\ trace = <<>>
    /\ found = {}
    /\ lib_dir = {}
    /\ jvm_path = {}
    /\ java_home = {}
    /\ version = ""
    /\ builder = NewBuild

\* A run of the script in any build context, with at most MaxFlags version
\* features enabled.
Init ==
    /\ os \in TargetOs
    /\ vendored \in BOOLEAN
    /\ features \in {F \in SUBSET Features : Cardinality(F) <= MaxFlags}
    /\ env \in [EnvNames -> EnvValues]
    /\ Start

\* A run with no environment variable set, for every subset of the version
\* features: the runs that reach build_libhdfs whenever the JVM is found.
InitBuild ==
    /\ os \in TargetOs
    /\ vendored \in BOOLEAN
    /\ features \in SUBSET Features
    /\ env = [n \in EnvNames |-> Unset]
    /\ Start

(* ------------------------------- actions ------------------------------- *)

\* Mutant of try: the error is dropped and the run goes on.
try_ignored(ok, next) == next

\* The `?` after a call: an Err ends the run as failed, an Ok goes on to
\* the statement after it.
try(ok, next) == IF ok THEN next ELSE "Err"

\* Mutant of skip_find_libhdfs: the locator runs whatever the features.
skip_find_libhdfs_never(vend) == FALSE

\* cfg!(feature = "vendored") in main: find_libhdfs is not called.
skip_find_libhdfs(vend) == vend

\* Mutant of docs_rs: the documentation build is not recognised.
docs_rs_never(e) == FALSE

\* env::var("DOCS_RS").is_ok()
docs_rs(e) == env_var(e, "DOCS_RS") # {}

\* main, the DOCS_RS test: return Ok(()) or go on to find_jvm()?.
main ==
    /\ pc = "main"
    /\ pc' = IF docs_rs(env) THEN "Ok" ELSE "find_jvm"
    /\ UNCHANGED <<os, vendored, features, env, trace, found, lib_dir, jvm_path,
                   java_home, version, builder>>

\* find_jvm()?: locate_jvm_dyn_library()? fails the run, or the directives
\* are printed (on windows with the jvm.lib lookup) and main goes on.
find_jvm ==
    /\ pc = "find_jvm"
    /\ \E r \in Results(JvmDirs), lib \in Results(JvmLibDirs) :
         /\ pc' = try(r # Err, "find_libhdfs")
         /\ IF r = Err
            THEN /\ lib = Err
                 /\ trace' = trace
                             \o <<Call("find_jvm", "locate_jvm_dyn_library", FALSE)>>
                 /\ UNCHANGED jvm_path
            ELSE /\ (os # "windows" => lib = Err)
                 /\ jvm_path' = r
                 /\ trace' = trace
                             \o <<Call("find_jvm", "locate_jvm_dyn_library", TRUE)>>
                             \o find_jvm_directives(CHOOSE p \in r : TRUE)
                             \o find_jvm_windows(os, lib)
    /\ UNCHANGED <<os, vendored, features, env, found, lib_dir, java_home,
                   version, builder>>

\* let found = if cfg!(feature = "vendored") { false } else { find_libhdfs()? };
\* if !found { build_libhdfs()?; } Ok(())
find_libhdfs ==
    /\ pc = "find_libhdfs"
    /\ IF skip_find_libhdfs(vendored)
       THEN /\ found' = {FALSE}
            /\ UNCHANGED <<trace, lib_dir>>
       ELSE /\ lib_dir' = find_libhdfs_dir(env)
            /\ found' = {lib_dir' # {}}
            /\ trace' = trace \o find_libhdfs_rerun
                        \o (IF lib_dir' # {}
                            THEN find_libhdfs_directives(CHOOSE d \in lib_dir' : TRUE,
                                                         find_libhdfs_mode(env))
                            ELSE <<>>)
    /\ pc' = IF found' = {TRUE} THEN "Ok" ELSE "build_libhdfs"
    /\ UNCHANGED <<os, vendored, features, env, jvm_path, java_home, version,
                   builder>>

\* build_libhdfs: locate_java_home()? and the static-link directive.
build_libhdfs_java_home ==
    /\ pc = "build_libhdfs"
    /\ \E r \in Results(JavaHomes) :
         /\ pc' = try(r # Err, "configure")
         /\ IF r = Err
            THEN /\ trace' = trace
                             \o <<Call("build_libhdfs", "locate_java_home", FALSE)>>
                 /\ UNCHANGED java_home
            ELSE /\ java_home' = r
                 /\ trace' = trace
                             \o <<Call("build_libhdfs", "locate_java_home", TRUE),
                                  Emit("build_libhdfs", "rustc-link-lib", "static",
                                       <<"hdfs">>)>>
    /\ UNCHANGED <<os, vendored, features, env, found, lib_dir, jvm_path,
                   version, builder>>

\* build_libhdfs: cc::Build::new() up to the java headers.
build_libhdfs_configure ==
    /\ pc = "configure"
    /\ builder' = [NewBuild EXCEPT
                     !.warnings = {FALSE},
                     !.static_flag = IF os # "windows" THEN {TRUE} ELSE {},
                     !.static_crt = {TRUE},
                     !.flags_if_supported = <<"-w", "-std=c++17">>,
                     !.flags = platform_flags(os),
                     !.includes = java_includes(CHOOSE h \in java_home : TRUE, os)]
    /\ pc' = "version"
    /\ UNCHANGED <<os, vendored, features, env, trace, found, lib_dir, jvm_path,
                   java_home, version>>

\* build_libhdfs: "Choose the latest hdfs version".
build_libhdfs_version ==
    /\ pc = "version"
    /\ version' = choose_version(features, os)
    /\ pc' = "sources"
    /\ UNCHANGED <<os, vendored, features, env, trace, found, lib_dir, jvm_path,
                   java_home, builder>>

\* build_libhdfs: the includes and files of the chosen version.
build_libhdfs_sources ==
    /\ pc = "sources"
    /\ builder' = [builder EXCEPT
                     !.includes = @ \o source_includes(features, os, version),
                     !.files = @ \o source_files(features, os, version)]
    /\ pc' = "compile"
    /\ UNCHANGED <<os, vendored, features, env, trace, found, lib_dir, jvm_path,
                   java_home, version>>

\* build_libhdfs: the fallback warning, then builder.compile("hdfs"), which
\* panics (fails the run) when the compiler rejects the sources.
build_libhdfs_compile ==
    /\ pc = "compile"
    /\ \E ok \in BOOLEAN :
         /\ trace' = trace \o fallback_warning(vendored)
                     \o <<Call("build_libhdfs", "compile", ok)>>
         /\ pc' = IF ok THEN "Ok" ELSE "Err"
    /\ UNCHANGED <<os, vendored, features, env, found, lib_dir, jvm_path,
                   java_home, version, builder>>

Next ==
    \/ main
    \/ find_jvm
    \/ find_libhdfs
    \/ build_libhdfs_java_home
    \/ build_libhdfs_configure
    \/ build_libhdfs_version
    \/ build_libhdfs_sources
    \/ build_libhdfs_compile

Spec == Init /\ [][Next]_vars

SpecBuild == InitBuild /\ [][Next]_vars

(* ----------------------- vocabulary of the claims ---------------------- *)

\* Position of a version in the total order, oldest = 1.
Rank(v) == CHOOSE i \in 1..Len(Versions) : Versions[i] = v

AtLeast(v, w) == Rank(v) >= Rank(w)

\* build_libhdfs has assembled its includes and files.
Assembled == pc = "compile"

HasInclude(path) == \E i \in DOMAIN builder.includes : builder.includes[i] = path

HasFile(path) == \E i \in DOMAIN builder.files : builder.files[i] = path

OsDir == IF os = "windows" THEN "windows" ELSE "posix"

HasThreading ==
    /\ HasInclude(InVersion(version, <<"os">>))
    /\ HasInclude(InVersion(version, <<"os", OsDir>>))
    /\ HasFile(InVersion(version, <<"os", OsDir, "mutexes.c">>))
    /\ HasFile(InVersion(version, <<"os", OsDir, "thread.c">>))
    /\ HasFile(InVersion(version, <<"os", OsDir, "thread_local_storage.c">>))

HasRelocatedHeader == HasInclude(InVersion(version, <<"include">>))

HasClassRegistry == HasFile(InVersion(version, <<"jclasses.c">>))

HasHashTable ==
    /\ HasInclude(InVersion(version, <<"common">>))
    /\ HasFile(InVersion(version, <<"common", "htable.c">>))

NoHashTable ==
    /\ ~HasInclude(InVersion(version, <<"common">>))
    /\ ~HasFile(InVersion(version, <<"common", "htable.c">>))

Range(q) == {q[i] : i \in DOMAIN q}

\* The include directories and the files build_libhdfs adds for features F
\* on the os of this run, laid under the version directory of this run (so
\* that two selections are compared relative to the version directory).
IncludesFor(F) == Range(source_includes(F, os, version))

FilesFor(F) == Range(source_files(F, os, version))

\* What the builder of this run holds beyond the java headers.
IncludesBuilt ==
    Range(SubSeq(builder.includes,
                 Len(java_includes(<<>>, os)) + 1, Len(builder.includes)))

FilesBuilt == Range(builder.files)

HashTablePaths ==
    {InVersion(version, <<"common">>), InVersion(version, <<"common", "htable.c">>)}

\* The newest version whose feature is in F, the oldest version for none.
MaxEnabled(F) ==
    IF F = {}
    THEN Versions[1]
    ELSE CHOOSE v \in F : \A w \in F : AtLeast(v, w)

(* ------------------------------- claims -------------------------------- *)

\* C2 (as claimed): once the source set is assembled, the threading sources
\* are in it iff the resolved version is >= 2.6 or the os is windows, the
\* relocated-header include iff the version is >= 2.8 and jclasses.c iff the
\* version is >= 3.3; and any features resolving to the same version on the
\* same os give the same includes and files.
C2_RulesFollowResolvedVersion ==
    Assembled =>
        /\ HasThreading <=> (AtLeast(version, "hdfs_2_6") \/ os = "windows")
        /\ HasRelocatedHeader <=> AtLeast(version, "hdfs_2_8")
        /\ HasClassRegistry <=> AtLeast(version, "hdfs_3_3")
        /\ \A F \in SUBSET Features :
             choose_version(F, os) = version
                 => IncludesFor(F) = IncludesBuilt /\ FilesFor(F) = FilesBuilt

\* C3 (as claimed): once the source set is assembled, the common include
\* directory and common/htable.c are in it iff the resolved version is
\* >= 2.6 and < 3.3, and both are absent otherwise.
C3_HashTableIffVersionInRange ==
    Assembled =>
        IF AtLeast(version, "hdfs_2_6") /\ ~AtLeast(version, "hdfs_3_3")
        THEN HasHashTable
        ELSE NoHashTable

C5_VersionIsNewestEnabled ==
    version # "" =>
        /\ \E i \in 1..Len(Versions) : Versions[i] = version
        /\ version = IF os = "windows"
                     THEN MaxEnabled(features \cup {"hdfs_2_6"})
                     ELSE MaxEnabled(features)

\* C5 witness: windows with only hdfs_2_3 enabled resolves hdfs_2_6.
C5_Witness ==
    /\ os = "windows"
    /\ features = {"hdfs_2_3"}
    /\ version = "hdfs_2_6"


(* ---------------------- claims about the whole run --------------------- *)

\* trace[i] is the rustc-link-lib directive of function by for library name.
IsLib(i, by, name) ==
    /\ trace[i].ev = "emit"
    /\ trace[i].by = by
    /\ trace[i].key = "rustc-link-lib"
    /\ trace[i].val = <<name>>

\* trace[i] is a rustc-link-search directive of function by.
IsSearch(i, by) ==
    /\ trace[i].ev = "emit"
    /\ trace[i].by = by
    /\ trace[i].key = "rustc-link-search"

\* trace[i] is a call of collaborator fn.
IsCall(i, fn) == trace[i].ev = "call" /\ trace[i].key = fn

\* trace[i] is a collaborator call that failed fatally (a failed jvm.lib
\* lookup is skipped silently).
Failed(i) == trace[i].ev = "call" /\ ~trace[i].ok /\ trace[i].key # "locate_file"

\* find_libhdfs was called and has returned.
LocatorRan == ~vendored /\ found # {}

\* Nothing after the DOCS_RS test has happened.
NothingDone ==
    /\ pc \in {"main", "Ok"}
    /\ trace = <<>>
    /\ found = {}
    /\ lib_dir = {}
    /\ jvm_path = {}
    /\ java_home = {}
    /\ version = ""
    /\ builder = NewBuild

\* C1 (as claimed): with the vendored feature no step of build_libhdfs ever
\* happens: no Java-home discovery, no source set, no compile.
C1_VendoredSkipsBuilder ==
    vendored =>
        /\ \A i \in DOMAIN trace : trace[i].by # "build_libhdfs"
        /\ java_home = {}
        /\ version = ""
        /\ builder = NewBuild

\* C1 (amended): with the vendored feature it is find_libhdfs that is
\* skipped, whatever the environment: none of its directives is printed and
\* nothing is found; and every run that passes the DOCS_RS test and ends Ok
\* has discovered the Java home and compiled the sources.
C1_VendoredSkipsLocator ==
    vendored =>
        /\ \A i \in DOMAIN trace : trace[i].by # "find_libhdfs"
        /\ lib_dir = {}
        /\ found # {TRUE}
        /\ (pc = "Ok" /\ trace # <<>>) =>
               /\ \E i \in DOMAIN trace : IsCall(i, "locate_java_home") /\ trace[i].ok
               /\ \E i \in DOMAIN trace : IsCall(i, "compile") /\ trace[i].ok

\* C1 witness: a vendored run that compiled the sources although
\* HDFS_LIB_DIR names a directory.
C1_Witness ==
    /\ vendored
    /\ env["HDFS_LIB_DIR"].unicode
    /\ pc = "Ok"
    /\ \E i \in DOMAIN trace : IsCall(i, "compile") /\ trace[i].ok

\* C6 (as claimed): the jvm directive of find_jvm and the hdfs directive of
\* find_libhdfs each come after a search-path directive for the directory
\* of that library.
C6_SearchPathPrecedesLib ==
    \A i \in DOMAIN trace :
        /\ IsLib(i, "find_jvm", "jvm") =>
               \E j \in 1..(i - 1) : IsSearch(j, "find_jvm") /\ trace[j].val \in jvm_path
        /\ IsLib(i, "find_libhdfs", "hdfs") =>
               \E j \in 1..(i - 1) : IsSearch(j, "find_libhdfs") /\ trace[j].val \in lib_dir

\* C6 (amended): the hdfs directive of find_libhdfs comes after the
\* search-path directive for its directory; the jvm directive of find_jvm
\* comes first and the search-path directive for the JVM directory is the
\* next directive printed.
C6_SearchPathWithLib ==
    \A i \in DOMAIN trace :
        /\ IsLib(i, "find_jvm", "jvm") =>
               /\ i < Len(trace)
               /\ IsSearch(i + 1, "find_jvm")
               /\ trace[i + 1].val \in jvm_path
               /\ \A j \in 1..(i - 1) : trace[j].ev # "emit"
        /\ IsLib(i, "find_libhdfs", "hdfs") =>
               \E j \in 1..(i - 1) : IsSearch(j, "find_libhdfs") /\ trace[j].val \in lib_dir

\* C6 witness: a run that printed both library directives.
C6_Witness ==
    /\ \E i \in DOMAIN trace : IsLib(i, "find_jvm", "jvm")
    /\ \E i \in DOMAIN trace : IsLib(i, "find_libhdfs", "hdfs")

\* The contract of find_libhdfs, given whether HDFS_LIB_DIR (dirSet) and
\* HADOOP_HOME (homeSet) count as set: it raises no error; it finds iff one
\* of the two is set; when it finds, the hdfs directive is static iff
\* HDFS_STATIC is set, whatever its value, and the directory is HDFS_LIB_DIR
\* if that is set and HADOOP_HOME/lib/native otherwise.
LocatorContract(dirSet, homeSet) ==
    LocatorRan =>
        /\ \A i \in DOMAIN trace : trace[i].by = "find_libhdfs" => trace[i].ok
        /\ pc # "find_libhdfs"
        /\ (pc = "Err" => trace[Len(trace)].by # "find_libhdfs")
        /\ found = {dirSet \/ homeSet}
        /\ found = {TRUE} =>
               /\ \E i \in DOMAIN trace : IsLib(i, "find_libhdfs", "hdfs")
               /\ \A i \in DOMAIN trace :
                      IsLib(i, "find_libhdfs", "hdfs") =>
                          trace[i].mode = IF env["HDFS_STATIC"].set
                                          THEN "static"
                                          ELSE "dylib"
               /\ lib_dir = IF dirSet
                            THEN {env["HDFS_LIB_DIR"].val}
                            ELSE {env["HADOOP_HOME"].val \o <<"lib", "native">>}
               /\ \A i \in DOMAIN trace :
                      IsSearch(i, "find_libhdfs") => trace[i].val \in lib_dir

IsSet(name) == env[name].set

IsSetUnicode(name) == env[name].set /\ env[name].unicode

\* C7 (as claimed): find_libhdfs never fails, finds iff HDFS_LIB_DIR or
\* HADOOP_HOME is set, links static iff HDFS_STATIC is set, and prefers
\* HDFS_LIB_DIR to HADOOP_HOME/lib/native.
C7_FoundIffSet == LocatorContract(IsSet("HDFS_LIB_DIR"), IsSet("HADOOP_HOME"))

\* C7 (amended): the same, with a directory variable counting only when it
\* is set to valid Unicode: one set to other bytes is passed over as if
\* unset.  HDFS_STATIC counts whenever it is set.
C7_FoundIffSetUnicode ==
    LocatorContract(IsSetUnicode("HDFS_LIB_DIR"), IsSetUnicode("HADOOP_HOME"))

\* C7 witness: HDFS_LIB_DIR is set but not Unicode, so the directory comes
\* from HADOOP_HOME, linked static for an HDFS_STATIC that is not Unicode.
C7_Witness ==
    /\ LocatorRan
    /\ found = {TRUE}
    /\ env["HDFS_LIB_DIR"] = NotUnicode
    /\ env["HDFS_STATIC"] = NotUnicode
    /\ \E i \in DOMAIN trace :
           IsLib(i, "find_libhdfs", "hdfs") /\ trace[i].mode = "static"

\* C8: find_libhdfs prints its hdfs directive only right after the
\* search-path directive for the chosen directory; once it has returned,
\* either no directory was determined and it printed neither directive, or
\* it printed one search-path directive followed by one hdfs directive.
C8_LocatorSearchPathThenLib ==
    LET libs == {i \in DOMAIN trace : IsLib(i, "find_libhdfs", "hdfs")}
        searches == {i \in DOMAIN trace : IsSearch(i, "find_libhdfs")}
    IN  /\ \A i \in libs : (i - 1) \in searches /\ trace[i - 1].val \in lib_dir
        /\ LocatorRan =>
               IF lib_dir = {}
               THEN libs = {} /\ searches = {}
               ELSE Cardinality(libs) = 1 /\ Cardinality(searches) = 1

\* C8 witness: the directory came from HADOOP_HOME and both directives
\* were printed.
C8_Witness ==
    /\ LocatorRan
    /\ ~env["HDFS_LIB_DIR"].set
    /\ lib_dir = {env["HADOOP_HOME"].val \o <<"lib", "native">>}
    /\ \E i \in DOMAIN trace : IsLib(i, "find_libhdfs", "hdfs")

\* C9: a fatal failure is the last thing a run does and leaves it failed,
\* and a failed run ends on one; after a JVM discovery failure nothing was
\* printed and neither find_libhdfs nor build_libhdfs ran; after a
\* Java-home failure no static-link directive was printed and nothing was
\* compiled; no collaborator is called twice.
C9_StopsAtFirstFailure ==
    /\ \A i \in DOMAIN trace : Failed(i) => i = Len(trace) /\ pc = "Err"
    /\ pc = "Err" => trace # <<>> /\ Failed(Len(trace))
    /\ \A i \in DOMAIN trace :
           (Failed(i) /\ IsCall(i, "locate_jvm_dyn_library")) =>
               /\ \A j \in DOMAIN trace : trace[j].ev # "emit"
               /\ \A j \in DOMAIN trace : trace[j].by = "find_jvm"
               /\ found = {}
               /\ java_home = {}
               /\ builder = NewBuild
    /\ \A i \in DOMAIN trace :
           (Failed(i) /\ IsCall(i, "locate_java_home")) =>
               /\ \A j \in DOMAIN trace : ~IsLib(j, "build_libhdfs", "hdfs")
               /\ \A j \in DOMAIN trace : ~IsCall(j, "compile")
               /\ builder = NewBuild
    /\ \A i, j \in DOMAIN trace :
           (trace[i].ev = "call" /\ trace[j].ev = "call" /\ trace[i].key = trace[j].key)
               => i = j

\* C9 witness: a run that failed in Java-home discovery after the JVM was
\* linked.
C9_Witness ==
    /\ pc = "Err"
    /\ Failed(Len(trace))
    /\ IsCall(Len(trace), "locate_java_home")
    /\ \E i \in DOMAIN trace : IsLib(i, "find_jvm", "jvm")

\* C10 (as claimed): whenever DOCS_RS is set, the run is at its start or
\* has ended Ok, and nothing was discovered, printed or compiled.
C10_GateWhenSet == env["DOCS_RS"].set => NothingDone

\* C10 (amended): whenever DOCS_RS is set to valid Unicode, the run is at
\* its start or has ended Ok, and nothing was discovered, printed or
\* compiled.
C10_GateWhenSetUnicode ==
    (env["DOCS_RS"].set /\ env["DOCS_RS"].unicode) => NothingDone

\* C10 witness: a run ended Ok by the DOCS_RS test although HDFS_LIB_DIR is
\* set and the vendored feature is off.
C10_Witness ==
    /\ env["DOCS_RS"].set
    /\ env["DOCS_RS"].unicode
    /\ env["HDFS_LIB_DIR"].set
    /\ ~vendored
    /\ pc = "Ok"
    /\ trace = <<>>

====
